---- MODULE Spec2Model ----
(***************************************************************************)
(* Model of the e-mail listener of access-time-be: the registry of SSE     *)
(* clients (EmailListenerService.addClient / close handler / broadcast),   *)
(* the poller (startPolling / stopPolling and the setInterval callback)    *)
(* and the inbox client (MailHogService.checkForEmails).                   *)
(*                                                                         *)
(* JavaScript runs one callback at a time: every action below is one       *)
(* synchronous run of a handler up to its next `await` (or its return).    *)
(***************************************************************************)
EXTENDS Integers, Sequences, FiniteSets, TLC

\* ---------------------------------------------------------------- bounds
MaxObs == 2      \* connections that ever reach GET /api/events
MaxMsgs == 2     \* messages that ever arrive in the store
MaxFires == 2    \* firings of the interval timer
MaxEnv == 6      \* events of the environment in one run: connections opened
                 \* and closed, messages arrived, timer firings, failed writes

Observers == 1..MaxObs
MsgIds == 1..MaxMsgs

\* lastEmailId / pollingInterval / emailId when null or absent
Null == 0

\* ------------------------------------------------------------ the document
\* The page that `page.setContent(request.html)` builds, as the sequence, in
\* document order, of the elements the checks of scanHtml select.
MaxElems == 2     \* elements of a document of mixed elements
MaxHeadings == 3  \* headings of a document of headings
MaxScans == 2     \* calls of scanHtml on one document

\* A text (attribute value, textContent) is a sequence of chunks: Blank is a
\* run of white space, any other chunk a run of other characters.  A missing
\* attribute and an empty one are both <<>>: the checks only test them for
\* truthiness.
Blank == " "

\* String.prototype.trim
RECURSIVE TrimStart(_)
TrimStart(s) == IF s # <<>> /\ Head(s) = Blank THEN TrimStart(Tail(s)) ELSE s

RECURSIVE TrimEnd(_)
TrimEnd(s) == IF s # <<>> /\ s[Len(s)] = Blank THEN TrimEnd(SubSeq(s, 1, Len(s) - 1)) ELSE s

Trim(s) == TrimEnd(TrimStart(s))

\* truthiness of a string-or-null value: '' and null are falsy
NonEmpty(s) == s # <<>>

\* an element with none of the attributes the checks read
Node(tag) ==
  [tagName |-> tag, alt |-> <<>>, textContent |-> <<>>, ariaLabel |-> <<>>,
   ariaLabelledby |-> <<>>, type |-> "text", id |-> "", hasFor |-> FALSE,
   htmlFor |-> "", hasHref |-> FALSE, th |-> 0]

HeadingTags == {"h1", "h2", "h3", "h4", "h5", "h6"}

\* an id attribute that holds a double quote
QuotedId == "a\"b"

\* the elements documents are built from
Elements ==
  {[Node("img") EXCEPT !.alt = a] : a \in {<<>>, <<Blank>>, <<"logo">>}}
  \cup {Node("button"),
        [Node("button") EXCEPT !.textContent = <<Blank, "Save", Blank>>],
        [Node("button") EXCEPT !.ariaLabel = <<"Close">>]}
  \cup {[Node("input") EXCEPT !.type = "hidden"],
        Node("input"),
        [Node("input") EXCEPT !.id = "a"],
        [Node("input") EXCEPT !.id = QuotedId],
        [Node("input") EXCEPT !.ariaLabelledby = <<"hint">>]}
  \cup {[Node("label") EXCEPT !.hasFor = TRUE, !.htmlFor = f] : f \in {"", "a"}}
  \cup {Node(h) : h \in HeadingTags}
  \cup {[Node("a") EXCEPT !.hasHref = TRUE, !.textContent = t] :
          t \in {<<>>, <<"Click here">>, <<"click here">>, <<Blank, "Read more", Blank>>,
                 <<"View our privacy policy">>}}
  \cup {[Node("a") EXCEPT !.textContent = <<"top">>]}
  \cup {[Node("table") EXCEPT !.th = n] : n \in {0, 1}}
  \cup {Node("video"), Node("canvas")}

RECURSIVE SeqsUpTo(_, _)
SeqsUpTo(S, n) ==
  IF n = 0 THEN {<<>>}
  ELSE LET shorter == SeqsUpTo(S, n - 1)
       IN  shorter \cup {Append(d, e) : d \in {x \in shorter : Len(x) = n - 1}, e \in S}

Documents ==
  SeqsUpTo(Elements, MaxElems) \cup SeqsUpTo({Node(h) : h \in HeadingTags}, MaxHeadings)

\* -------------------------------------------------------- the rule engine
\* impact: null
NoImpact == "null"

\* what a check pushes: the collection and the finding
Violation(id, impact, sel, index, summary) ==
  [to |-> "violations",
   finding |-> [id |-> id, impact |-> impact,
                nodes |-> << [target |-> <<sel, index>>, failureSummary |-> summary] >>]]

\* a pass pushed with a severity and an explanation
PassExplained(id, sel, index) ==
  [to |-> "passes",
   finding |-> [id |-> id, impact |-> "minor",
                nodes |-> << [target |-> <<sel, index>>, failureSummary |-> <<"Passed">>] >>]]

Pass(id, sel, index) ==
  [to |-> "passes",
   finding |-> [id |-> id, impact |-> NoImpact,
                nodes |-> << [target |-> <<sel, index>>, failureSummary |-> <<>>] >>]]

Inapplicable(id, sel, index) ==
  [to |-> "inapplicable",
   finding |-> [id |-> id, impact |-> NoImpact,
                nodes |-> << [target |-> <<sel, index>>, failureSummary |-> <<>>] >>]]

RECURSIVE Flatten(_)
Flatten(ss) == IF ss = <<>> THEN <<>> ELSE Head(ss) \o Flatten(Tail(ss))

\* document.querySelectorAll(selector), for a selector that is a set of tags
QuerySelectorAll(doc, tags) == SelectSeq(doc, LAMBDA e : e.tagName \in tags)

\* an image check that accepts a missing or empty alt and rejects a blank one
ImageAltBlankOnly(doc) ==
  LET images == QuerySelectorAll(doc, {"img"})
  IN  [i \in 1..Len(images) |->
         IF NonEmpty(images[i].alt) /\ Trim(images[i].alt) = <<>>
           THEN Violation("image-alt", "critical", "img", i - 1, <<"Image missing alt text">>)
           ELSE Pass("image-alt", "img", i - 1)]

\* images.forEach: `!imgElement.alt || imgElement.alt.trim() === ''`
ImageAlt(doc) ==
  LET images == QuerySelectorAll(doc, {"img"})
  IN  [i \in 1..Len(images) |->
         IF ~NonEmpty(images[i].alt) \/ Trim(images[i].alt) = <<>>
           THEN Violation("image-alt", "critical", "img", i - 1, <<"Image missing alt text">>)
           ELSE Pass("image-alt", "img", i - 1)]

\* buttons.forEach
ButtonName(doc) ==
  LET buttons == QuerySelectorAll(doc, {"button"})
  IN  [i \in 1..Len(buttons) |->
         IF /\ ~NonEmpty(Trim(buttons[i].textContent))
            /\ ~NonEmpty(buttons[i].ariaLabel)
            /\ ~NonEmpty(buttons[i].ariaLabelledby)
           THEN Violation("button-name", "critical", "button", i - 1,
                          <<"Button missing accessible name">>)
           ELSE Pass("button-name", "button", i - 1)]

\* `label[for="${inputElement.id}"]` is not a selector when the id holds a
\* double quote: querySelector throws a SyntaxError
BadSelector(id) == id = QuotedId

\* document.querySelector(`label[for="${inputElement.id}"]`)
LabelFor(doc, id) ==
  \E i \in 1..Len(doc) : doc[i].tagName = "label" /\ doc[i].hasFor /\ doc[i].htmlFor = id

\* what the label check pushes for one visible input
LabelVisible(doc, input, index) ==
  IF ~NonEmpty(input.ariaLabel) /\ ~NonEmpty(input.ariaLabelledby)
    THEN IF ~LabelFor(doc, input.id)
           THEN Violation("label", "critical", "input", index, <<"Form input missing label">>)
           ELSE Pass("label", "input", index)
    ELSE Pass("label", "input", index)

\* a label check whose branch for hidden inputs does not return
LabelOneNoReturn(doc, input, index) ==
  IF input.type = "hidden"
    THEN <<Inapplicable("label", "input", index), LabelVisible(doc, input, index)>>
    ELSE <<LabelVisible(doc, input, index)>>

\* the callback of inputs.forEach: what it pushes for one input
LabelOne(doc, input, index) ==
  IF input.type = "hidden"
    THEN <<Inapplicable("label", "input", index)>>
    ELSE <<LabelVisible(doc, input, index)>>

\* inputs.forEach
Label(doc) ==
  LET inputs == QuerySelectorAll(doc, {"input"})
  IN  Flatten([i \in 1..Len(inputs) |-> LabelOne(doc, inputs[i], i - 1)])

\* parseInt(headingElement.tagName.charAt(1))
Level(tag) ==
  CASE tag = "h1" -> 1 [] tag = "h2" -> 2 [] tag = "h3" -> 3
    [] tag = "h4" -> 4 [] tag = "h5" -> 5 [] tag = "h6" -> 6

\* a heading walk that keeps the tracked level when a heading violates
RECURSIVE HeadingWalkKeep(_, _, _)
HeadingWalkKeep(headings, index, lastLevel) ==
  IF headings = <<>> THEN <<>>
  ELSE LET level == Level(Head(headings).tagName)
       IN  IF level > lastLevel + 1 /\ lastLevel > 0
             THEN <<Violation("heading-order", "moderate", "heading", index,
                              <<"Heading level", level, "skipped from level", lastLevel>>)>>
                  \o HeadingWalkKeep(Tail(headings), index + 1, lastLevel)
             ELSE <<Pass("heading-order", "heading", index)>>
                  \o HeadingWalkKeep(Tail(headings), index + 1, level)

\* headings.forEach from position index on, with `lastLevel` as it stands
RECURSIVE HeadingWalk(_, _, _)
HeadingWalk(headings, index, lastLevel) ==
  IF headings = <<>> THEN <<>>
  ELSE LET level == Level(Head(headings).tagName)
       IN  << IF level > lastLevel + 1 /\ lastLevel > 0
                THEN Violation("heading-order", "moderate", "heading", index,
                               <<"Heading level", level, "skipped from level", lastLevel>>)
                ELSE Pass("heading-order", "heading", index) >>
           \o HeadingWalk(Tail(headings), index + 1, level)

\* `let lastLevel = 0; headings.forEach(...)`
HeadingOrder(doc) == HeadingWalk(QuerySelectorAll(doc, HeadingTags), 0, 0)

\* the link texts the check rejects
GenericLinkTexts == {<<"Click here">>, <<"Read more">>, <<"Download">>, <<"Learn more">>}

\* a link check that compares the text without trimming it
LinkNameNoTrim(doc) ==
  LET links == SelectSeq(doc, LAMBDA e : e.tagName = "a" /\ e.hasHref)
  IN  [i \in 1..Len(links) |->
         LET text == links[i].textContent
         IN  IF ~NonEmpty(text) \/ text \in GenericLinkTexts
               THEN Violation("link-name", "serious", "a", i - 1,
                              <<"Link text is not descriptive">>)
               ELSE Pass("link-name", "a", i - 1)]

\* document.querySelectorAll('a[href]').forEach
LinkName(doc) ==
  LET links == SelectSeq(doc, LAMBDA e : e.tagName = "a" /\ e.hasHref)
  IN  [i \in 1..Len(links) |->
         LET text == Trim(links[i].textContent)
         IN  IF ~NonEmpty(text) \/ text \in GenericLinkTexts
               THEN Violation("link-name", "serious", "a", i - 1,
                              <<"Link text is not descriptive">>)
               ELSE Pass("link-name", "a", i - 1)]

\* tables.forEach: `tableElement.querySelectorAll('th').length === 0`
TableHeaders(doc) ==
  LET tables == QuerySelectorAll(doc, {"table"})
  IN  [i \in 1..Len(tables) |->
         IF tables[i].th = 0
           THEN Violation("th-has-data-cells", "moderate", "table", i - 1,
                          <<"Table missing headers">>)
           ELSE Pass("th-has-data-cells", "table", i - 1)]

\* a video check that pushes one finding for every video
VideoCaptionEach(doc) ==
  LET videos == QuerySelectorAll(doc, {"video"})
  IN  [i \in 1..Len(videos) |->
         [to |-> "incomplete",
          finding |-> [id |-> "video-caption", impact |-> "moderate",
                       nodes |-> << [target |-> <<"video">>,
                                     failureSummary |->
                                       <<"Video caption check requires manual review">>] >>]]]

\* `if (document.querySelectorAll('video').length > 0)`
VideoCaption(doc) ==
  IF Len(QuerySelectorAll(doc, {"video"})) > 0
    THEN << [to |-> "incomplete",
             finding |-> [id |-> "video-caption", impact |-> "moderate",
                          nodes |-> << [target |-> <<"video">>,
                                        failureSummary |->
                                          <<"Video caption check requires manual review">>] >>]] >>
    ELSE <<>>

\* `if (document.querySelectorAll('canvas').length === 0)`
CanvasText(doc) ==
  IF Len(QuerySelectorAll(doc, {"canvas"})) = 0
    THEN << [to |-> "inapplicable",
             finding |-> [id |-> "canvas-replaced-text", impact |-> NoImpact,
                          nodes |-> <<>>]] >>
    ELSE <<>>

\* an evaluation that runs the button check before the image check
PushesButtonsFirst(doc) ==
  ButtonName(doc) \o ImageAlt(doc) \o Label(doc) \o HeadingOrder(doc)
  \o LinkName(doc) \o TableHeaders(doc) \o VideoCaption(doc) \o CanvasText(doc)

\* the pushes of one evaluation, in the order the checks make them
Pushes(doc) ==
  ImageAlt(doc) \o ButtonName(doc) \o Label(doc) \o HeadingOrder(doc)
  \o LinkName(doc) \o TableHeaders(doc) \o VideoCaption(doc) \o CanvasText(doc)

\* the findings pushed to one collection
Collected(pushes, to) ==
  LET mine == SelectSeq(pushes, LAMBDA p : p.to = to)
  IN  [i \in 1..Len(mine) |-> mine[i].finding]

\* AccessibilityScanner.scanHtml: the value page.evaluate returns
scanHtml(doc) ==
  [violations |-> Collected(Pushes(doc), "violations"),
   passes |-> Collected(Pushes(doc), "passes"),
   incomplete |-> Collected(Pushes(doc), "incomplete"),
   inapplicable |-> Collected(Pushes(doc), "inapplicable")]

\* page.evaluate rejects: the label check reaches querySelector, for a visible
\* input without aria-label and aria-labelledby, with a selector that is none
Throws(doc) ==
  \E i \in 1..Len(doc) :
    /\ doc[i].tagName = "input" /\ doc[i].type # "hidden"
    /\ ~NonEmpty(doc[i].ariaLabel) /\ ~NonEmpty(doc[i].ariaLabelledby)
    /\ BadSelector(doc[i].id)

\* what scanHtml leaves its caller with when it throws
Rejected == [error |-> "SyntaxError"]

\* no evaluation has returned yet
NoResults == [violations |-> <<>>, passes |-> <<>>, incomplete |-> <<>>, inapplicable |-> <<>>]

\* ------------------------------------------------- strings, by their class
\* A string of the transport payload is modelled by what the code asks of it:
\*   "absent"   the field (or the MIME part) does not exist
\*   "empty"    ''
\*   "blank"    non-empty, whitespace only
\*   "escblank" non-empty, only whitespace and the two-character escapes
\*              \r\n \n \t (it becomes blank once unescaped)
\*   "text"     contains other characters
StrClasses == {"absent", "empty", "blank", "escblank", "text"}

\* JavaScript truthiness of a string-or-undefined value
Truthy(s) == s \notin {"absent", "empty"}

\* x || ''
OrEmpty(s) == IF Truthy(s) THEN s ELSE "empty"

\* .replace(/\\r\\n/g,'\n').replace(/\\n/g,'\n').replace(/\\"/g,'"').replace(/\\t/g,'\t')
Unescape(s) == IF s = "escblank" THEN "blank" ELSE s

\* s.trim().length === 0, for a string s
TrimEmpty(s) == s \in {"empty", "blank"}

\* the shapes of message the store may hold (MIME html part body, Body,
\* Content.Body, MIME text part body) and, for a body of class "text", its
\* markup: here an <img> without alt
MsgShapes ==
  { [html |-> "text",   body |-> "absent",   cbody |-> "absent", text |-> "absent",
     markup |-> "<img>"],
    [html |-> "absent", body |-> "escblank", cbody |-> "absent", text |-> "absent",
     markup |-> ""] }

\* page.setContent(html): the document a markup parses to
Parse(markup) == IF markup = "<img>" THEN <<Node("img")>> ELSE <<>>

\* an empty list that ends in the catch, as `messages[0].ID` would without
\* the test of messages.length
NoDataThrows ==
  [ok |-> FALSE, hasNewEmail |-> FALSE, emailId |-> Null, htmlContent |-> "absent", markup |-> ""]
NoData ==
  [ok |-> TRUE, hasNewEmail |-> FALSE, emailId |-> Null, htmlContent |-> "absent", markup |-> ""]
\* a catch that swallows the transport error and reports an empty inbox
FetchErrorSwallowed == NoData
FetchError ==
  [ok |-> FALSE, hasNewEmail |-> FALSE, emailId |-> Null, htmlContent |-> "absent", markup |-> ""]

\* a body extraction without the fallback for blank content
ExtractBodyNoFallback(m) ==
  LET h1 == IF m.html # "absent" THEN OrEmpty(m.html) ELSE "empty"
      h2 == IF ~Truthy(h1) /\ Truthy(m.body) THEN m.body ELSE h1
      h3 == IF ~Truthy(h2) /\ Truthy(m.cbody) THEN m.cbody ELSE h2
  IN  Unescape(h3)

\* the body of checkForEmails after `const latestEmail = messages[0]`
ExtractBody(m) ==
  LET h1 == IF m.html # "absent" THEN OrEmpty(m.html) ELSE "empty"
      h2 == IF ~Truthy(h1) /\ Truthy(m.body) THEN m.body ELSE h1
      h3 == IF ~Truthy(h2) /\ Truthy(m.cbody) THEN m.cbody ELSE h2
      h4 == Unescape(h3)
      t1 == IF m.text # "absent" THEN OrEmpty(m.text) ELSE "empty"
      t2 == IF ~Truthy(t1) /\ Truthy(m.cbody) THEN m.cbody ELSE t1
  IN  IF ~Truthy(h4) \/ TrimEmpty(h4)
        THEN IF Truthy(t2) THEN "text" ELSE "empty"
        ELSE h4

\* the markup of htmlContent: the message's own when the body was taken as it
\* is, none of interest when it is empty or the plain text wrapped in
\* <html><body><pre>
BodyMarkup(m) ==
  LET h1 == IF m.html # "absent" THEN OrEmpty(m.html) ELSE "empty"
      h2 == IF ~Truthy(h1) /\ Truthy(m.body) THEN m.body ELSE h1
      h3 == IF ~Truthy(h2) /\ Truthy(m.cbody) THEN m.cbody ELSE h2
      h4 == Unescape(h3)
  IN  IF ~Truthy(h4) \/ TrimEmpty(h4) THEN "" ELSE m.markup

\* MailHogService.checkForEmails on a transport outcome and the list the
\* store returns (newest first)
checkForEmails(transport, messages) ==
  IF transport = "unreachable" THEN FetchError
  ELSE IF transport = "noitems" \/ Len(messages) = 0 THEN NoData
  ELSE [ok |-> TRUE, hasNewEmail |-> TRUE, emailId |-> messages[1].ID,
        htmlContent |-> ExtractBody(messages[1]), markup |-> BodyMarkup(messages[1])]

\* the assignment that the returned htmlContent was written by: the html
\* part's body (l.36), Body (l.41), Content.Body (l.45), the synthesized
\* <pre> page around the text part's body or around Content.Body (l.67), or
\* none of them (l.69-75)
BodySourceBodyFirst(m) ==
  LET h1 == IF Truthy(m.body) THEN m.body ELSE "empty"
      s1 == IF Truthy(m.body) THEN "Body" ELSE "none"
      h2 == IF ~Truthy(h1) /\ m.html # "absent" /\ Truthy(m.html) THEN m.html ELSE h1
      s2 == IF ~Truthy(h1) /\ m.html # "absent" /\ Truthy(m.html) THEN "htmlPart.Body" ELSE s1
      h3 == IF ~Truthy(h2) /\ Truthy(m.cbody) THEN m.cbody ELSE h2
      s3 == IF ~Truthy(h2) /\ Truthy(m.cbody) THEN "Content.Body" ELSE s2
      h4 == Unescape(h3)
      t1 == IF m.text # "absent" THEN OrEmpty(m.text) ELSE "empty"
      t2 == IF ~Truthy(t1) /\ Truthy(m.cbody) THEN m.cbody ELSE t1
  IN  IF ~Truthy(h4) \/ TrimEmpty(h4)
        THEN IF Truthy(t2)
               THEN IF Truthy(t1) THEN "pre(textPart.Body)" ELSE "pre(Content.Body)"
               ELSE "none"
        ELSE s3
BodySource(m) ==
  LET h1 == IF m.html # "absent" THEN OrEmpty(m.html) ELSE "empty"
      s1 == IF m.html # "absent" /\ Truthy(m.html) THEN "htmlPart.Body" ELSE "none"
      h2 == IF ~Truthy(h1) /\ Truthy(m.body) THEN m.body ELSE h1
      s2 == IF ~Truthy(h1) /\ Truthy(m.body) THEN "Body" ELSE s1
      h3 == IF ~Truthy(h2) /\ Truthy(m.cbody) THEN m.cbody ELSE h2
      s3 == IF ~Truthy(h2) /\ Truthy(m.cbody) THEN "Content.Body" ELSE s2
      h4 == Unescape(h3)
      t1 == IF m.text # "absent" THEN OrEmpty(m.text) ELSE "empty"
      t2 == IF ~Truthy(t1) /\ Truthy(m.cbody) THEN m.cbody ELSE t1
  IN  IF ~Truthy(h4) \/ TrimEmpty(h4)
        THEN IF Truthy(t2)
               THEN IF Truthy(t1) THEN "pre(textPart.Body)" ELSE "pre(Content.Body)"
               ELSE "none"
        ELSE s3

\* BodySource for the answer of checkForEmails(transport, messages)
Source(transport, messages) ==
  IF transport = "ok" /\ Len(messages) > 0 THEN BodySource(messages[1]) ELSE "none"

\* the record kept of a completed fetch: the tick that awaited it (0 for a
\* request of GET /api/emails), what it returned and where the body came from
Fetched(tick, emailData, from) ==
  [tick |-> tick, ok |-> emailData.ok, emailId |-> emailData.emailId,
   hasNewEmail |-> emailData.hasNewEmail, htmlContent |-> emailData.htmlContent,
   from |-> from]

\* no fetch has completed
NoFetch == Fetched(0, NoData, "none")


\* ------------------------------------------------------------------ state
VARIABLES
  clients,          \* EmailListenerService.clients: a Set, in insertion order
  lastEmailId,      \* EmailListenerService.lastEmailId (the cursor)
  isPolling,        \* EmailListenerService.isPolling
  pollingInterval,  \* EmailListenerService.pollingInterval: a timer handle or Null
  timers,           \* the interval timers armed in the runtime
  timerSeq,         \* timer handles handed out by setInterval so far
  conn,             \* per connection: "new", "open" (close handler registered), "closed"
  inbox,            \* the messages of the store, newest first
  ticks,            \* the invocations of the interval callback that are in flight
  fires,            \* firings of the timer so far (the id of the latest tick)
  sent,             \* history: the events written, in order, with their recipients
  ops,              \* history: the attach / close calls, in order
  nStart,           \* history: Idle -> Polling transitions
  nStop,            \* history: Polling -> Idle transitions
  nFail,            \* history: writes that threw
  lastFetch,        \* history: the tick and the result of the fetch that completed last
  document,         \* the page of the latest evaluation: request.html once parsed
  results,          \* the report the latest evaluation returned
  nScan,            \* history: evaluations that returned
  request,          \* ScanController.scanHtml: the request in hand and where its handler stands
  responses         \* history: the responses ScanController.scanHtml has sent

vars == <<clients, lastEmailId, isPolling, pollingInterval, timers, timerSeq,
          conn, inbox, ticks, fires, sent, ops, nStart, nStop, nFail, lastFetch,
          document, results, nScan, request, responses>>

\* ------------------------------------------------------------ the Set API
Members(cl) == {cl[i] : i \in 1..Len(cl)}

\* Set.prototype.add
SetAdd(cl, o) == IF o \in Members(cl) THEN cl ELSE Append(cl, o)

\* a delete that leaves the set as it is
SetDeleteNothing(cl, o) == cl

\* Set.prototype.delete
SetDelete(cl, o) == SelectSeq(cl, LAMBDA x : x # o)

\* deadClients.forEach(client => this.clients.delete(client))
\* a clean-up that empties the set when any write failed
DeleteAllClear(cl, dead) == IF dead = {} THEN cl ELSE <<>>
DeleteAll(cl, dead) == SelectSeq(cl, LAMBDA x : x \notin dead)

\* --------------------------------------------------------------- the poller
Poller == [isPolling |-> isPolling, pollingInterval |-> pollingInterval,
           timers |-> timers, timerSeq |-> timerSeq]

\* a startPolling without `if (this.isPolling) return`
startPollingNoGuard(p) ==
  [isPolling |-> TRUE, pollingInterval |-> p.timerSeq + 1,
   timers |-> p.timers \cup {p.timerSeq + 1}, timerSeq |-> p.timerSeq + 1]

\* startPolling(): arms the interval timer unless already polling
startPolling(p) ==
  IF p.isPolling THEN p
  ELSE [isPolling |-> TRUE, pollingInterval |-> p.timerSeq + 1,
        timers |-> p.timers \cup {p.timerSeq + 1}, timerSeq |-> p.timerSeq + 1]

\* a stopPolling that drops the handle without clearInterval
stopPollingNoClear(p) ==
  [isPolling |-> FALSE, pollingInterval |-> Null, timers |-> p.timers,
   timerSeq |-> p.timerSeq]

\* stopPolling(): clears the interval timer
stopPolling(p) ==
  [isPolling |-> FALSE, pollingInterval |-> Null,
   timers |-> IF p.pollingInterval # Null THEN p.timers \ {p.pollingInterval}
              ELSE p.timers,
   timerSeq |-> p.timerSeq]

\* an addClient that starts the poller only the first time it finds it idle
StartOnlyOnce(p) == IF ~p.isPolling /\ p.timerSeq = 0 THEN startPolling(p) ELSE p

\* addClient: `if (!this.isPolling) this.startPolling()`
StartIfIdle(p) == IF ~p.isPolling THEN startPolling(p) ELSE p

\* a close handler that stops the poller whatever the set holds
StopOnEveryClose(cl, p) == stopPolling(p)

\* close handler: `if (this.clients.size === 0) this.stopPolling()`
StopIfEmpty(cl, p) == IF Len(cl) = 0 THEN stopPolling(p) ELSE p

SetPoller(p) ==
  /\ isPolling' = p.isPolling
  /\ pollingInterval' = p.pollingInterval
  /\ timers' = p.timers
  /\ timerSeq' = p.timerSeq
  /\ nStart' = nStart + (IF ~isPolling /\ p.isPolling THEN 1 ELSE 0)
  /\ nStop' = nStop + (IF isPolling /\ ~p.isPolling THEN 1 ELSE 0)

PollerUnchanged == UNCHANGED <<isPolling, pollingInterval, timers, timerSeq, nStart, nStop>>
ControllerUnchanged == UNCHANGED <<request, responses>>
ScannerUnchanged == UNCHANGED <<document, results, nScan>> /\ ControllerUnchanged

\* ------------------------------------------------------------------ events
\* an event that goes out as a status_update whatever it is
EventAsStatus(type, emailId, hasContent) ==
  [type |-> "status_update", emailId |-> emailId, hasContent |-> hasContent]
Event(type, emailId, hasContent) ==
  [type |-> type, emailId |-> emailId, hasContent |-> hasContent]

\* an email_received event sent under the type of the scan result
ItemObservedAsScan(emailData) ==
  Event("scan_complete", emailData.emailId, Truthy(emailData.htmlContent))

\* the email_received event of a tick
ItemObserved(emailData) ==
  Event("email_received", emailData.emailId, Truthy(emailData.htmlContent))

\* a forEach without the try/catch: the first write that throws ends the pass
RECURSIVE ForEachWriteAbort(_, _)
ForEachWriteAbort(cl, fails) ==
  IF cl = <<>> THEN [to |-> <<>>, dead |-> {}]
  ELSE IF Head(cl) \in fails THEN [to |-> <<>>, dead |-> {Head(cl)}]
  ELSE LET r == ForEachWriteAbort(Tail(cl), fails)
       IN  [to |-> <<Head(cl)>> \o r.to, dead |-> r.dead]

\* the forEach of broadcast: the clients written to, in order, and the clients
\* whose write threw (fails: the clients whose write throws)
RECURSIVE ForEachWrite(_, _)
ForEachWrite(cl, fails) ==
  IF cl = <<>> THEN [to |-> <<>>, dead |-> {}]
  ELSE LET r == ForEachWrite(Tail(cl), fails)
       IN  IF Head(cl) \in fails
             THEN [to |-> r.to, dead |-> r.dead \cup {Head(cl)}]
             ELSE [to |-> <<Head(cl)>> \o r.to, dead |-> r.dead]

\* a broadcast that writes to the first client of the set only
broadcastFirstOnly(cl, ev, fails, tick) ==
  LET r == ForEachWrite(IF cl = <<>> THEN cl ELSE <<Head(cl)>>, fails)
  IN  [clients |-> DeleteAll(cl, r.dead),
       entry |-> [type |-> ev.type, emailId |-> ev.emailId, hasContent |-> ev.hasContent,
                  to |-> r.to, tick |-> tick]]

\* broadcast(event): the clients left and the log entry
broadcast(cl, ev, fails, tick) ==
  LET r == ForEachWrite(cl, fails)
  IN  [clients |-> DeleteAll(cl, r.dead),
       entry |-> [type |-> ev.type, emailId |-> ev.emailId, hasContent |-> ev.hasContent,
                  to |-> r.to, tick |-> tick]]

\* a sendToClient that writes the event to every client of the set
sendToAll(cl, o, ev, fail) ==
  [clients |-> IF fail THEN SetDelete(cl, o) ELSE cl,
   entry |-> [type |-> ev.type, emailId |-> ev.emailId, hasContent |-> ev.hasContent,
              to |-> IF fail THEN <<>> ELSE cl, tick |-> 0]]

\* sendToClient(res, event): the clients left and the log entry
sendToClient(cl, o, ev, fail) ==
  [clients |-> IF fail THEN SetDelete(cl, o) ELSE cl,
   entry |-> [type |-> ev.type, emailId |-> ev.emailId, hasContent |-> ev.hasContent,
              to |-> IF fail THEN <<>> ELSE <<o>>, tick |-> 0]]

\* the events of the environment so far
EnvEvents ==
  Cardinality({o \in Observers : conn[o] # "new"})
  + Cardinality({o \in Observers : conn[o] = "closed"})
  + Len(inbox) + fires + nFail

\* the sets of clients whose write may throw in one pass
Fails(cl) == {f \in SUBSET Members(cl) : EnvEvents + Cardinality(f) <= MaxEnv}

\* the store when it held n messages (newest first)
Newest(box, n) == SubSeq(box, Len(box) - n + 1, Len(box))

Transports == {"ok", "unreachable", "noitems"}

\* a change detector that forgets to compare with the cursor
IsNewNoCursor(emailData, last) == emailData.hasNewEmail

\* a change detector that takes the first item it sees as its baseline
IsNewAfterBaseline(emailData, last) ==
  emailData.hasNewEmail /\ last # Null /\ emailData.emailId # last

\* `emailData.hasNewEmail && emailData.emailId !== this.lastEmailId`
IsNew(emailData, last) == emailData.hasNewEmail /\ emailData.emailId # last

\* `emailData.htmlContent && emailData.htmlContent.trim().length > 0`
\* a scan condition that no body satisfies
HasContentNever(htmlContent) == FALSE
HasContentToScan(html) == Truthy(html) /\ ~TrimEmpty(html)

\* ------------------------------------------------- POST /api/scan requests
MaxRequests == 2

\* `1024 * 1024`
SizeLimit == 1048576

\* the values of req.body.html: none, a number, and strings by their length
\* and by whether trim() leaves anything of them
HtmlValues ==
  { [type |-> "undefined", length |-> 0, blank |-> TRUE],
    [type |-> "number", length |-> 0, blank |-> FALSE],
    [type |-> "string", length |-> 0, blank |-> TRUE],
    [type |-> "string", length |-> 3, blank |-> TRUE],
    [type |-> "string", length |-> SizeLimit + 1, blank |-> TRUE],
    [type |-> "string", length |-> 3, blank |-> FALSE],
    [type |-> "string", length |-> SizeLimit, blank |-> FALSE],
    [type |-> "string", length |-> SizeLimit + 1, blank |-> FALSE] }

\* req.body, with `sendEmail = false` when it has none
Requests == [html : HtmlValues, sendEmail : BOOLEAN]

\* `!html`
Falsy(html) == html.type = "undefined" \/ (html.type = "string" /\ html.length = 0)

\* a validation that refuses the length of the limit itself
ValidateInclusive(html) ==
  IF Falsy(html) \/ html.type # "string" THEN 400
  ELSE IF html.blank THEN 400
  ELSE IF html.length >= SizeLimit THEN 413
  ELSE 0

\* the three tests of scanHtml: the status of the refusal, 0 when it passes
Validate(html) ==
  IF Falsy(html) \/ html.type # "string" THEN 400
  ELSE IF html.blank THEN 400
  ELSE IF html.length > SizeLimit THEN 413
  ELSE 0

\* what `await this.scanner.scanHtml()` settles with: the report, or a thrown
\* value, which is an Error with a message (a sequence of words) or no Error
NotAnError == <<"not an Error">>
ScanOutcomes ==
  { [threw |-> FALSE, message |-> <<>>],
    [threw |-> TRUE, message |-> <<"Navigation", "timeout", "of", "30000", "ms", "exceeded">>],
    [threw |-> TRUE, message |-> <<"Protocol", "error">>],
    [threw |-> TRUE, message |-> NotAnError] }

\* `error instanceof Error ? error.message : 'Unknown error'`
ErrorMessage(thrown) == IF thrown = NotAnError THEN <<"Unknown", "error">> ELSE thrown

\* errorMessage.includes(word)
Includes(message, word) == \E i \in 1..Len(message) : message[i] = word

\* `errorMessage.includes('timeout') ? 408 : 500`
StatusCode(thrown) == IF Includes(ErrorMessage(thrown), "timeout") THEN 408 ELSE 500

\* no request is in the hands of the controller
NoRequest == [pc |-> "idle"]

\* the controller as constructed
NoController == request = NoRequest /\ responses = <<>>

\* ------------------------------------------------------------------- Init
\* the listener as constructed: no client, no cursor, not polling
NewListener ==
  /\ clients = <<>>
  /\ lastEmailId = Null
  /\ isPolling = FALSE
  /\ pollingInterval = Null
  /\ timers = {}
  /\ timerSeq = 0
  /\ conn = [o \in Observers |-> "new"]
  /\ inbox = <<>>
  /\ ticks = {}
  /\ fires = 0
  /\ sent = <<>>
  /\ ops = <<>>
  /\ nStart = 0
  /\ nStop = 0
  /\ nFail = 0
  /\ lastFetch = NoFetch

Init ==
  /\ NewListener
  /\ document = <<>>
  /\ results = NoResults
  /\ nScan = 0
  /\ NoController

\* ---------------------------------------------------------------- actions
\* GET /api/events: addClient(res); the connections are numbered as they come
Attach(o) ==
  /\ conn[o] = "new"
  /\ \A q \in Observers : q < o => conn[q] # "new"
  /\ EnvEvents < MaxEnv
  /\ \E fail \in {f \in BOOLEAN : f => EnvEvents + 1 < MaxEnv} :
       LET s == sendToClient(SetAdd(clients, o), o,
                             Event("status_update", Null, FALSE), fail)
       IN  /\ clients' = s.clients
           /\ sent' = Append(sent, s.entry)
           /\ nFail' = nFail + (IF fail THEN 1 ELSE 0)
  /\ SetPoller(StartIfIdle(Poller))
  /\ conn' = [conn EXCEPT ![o] = "open"]
  /\ ops' = Append(ops, <<"attach", o>>)
  /\ UNCHANGED <<lastEmailId, inbox, ticks, fires, lastFetch>>
  /\ ScannerUnchanged

\* res.on('close', ...)
Close(o) ==
  /\ conn[o] = "open"
  /\ EnvEvents < MaxEnv
  /\ clients' = SetDelete(clients, o)
  /\ SetPoller(StopIfEmpty(SetDelete(clients, o), Poller))
  /\ conn' = [conn EXCEPT ![o] = "closed"]
  /\ ops' = Append(ops, <<"close", o>>)
  /\ UNCHANGED <<lastEmailId, inbox, ticks, fires, sent, nFail, lastFetch>>
  /\ ScannerUnchanged

\* a message reaches the store
Arrive(shape) ==
  /\ Len(inbox) < MaxMsgs
  /\ EnvEvents < MaxEnv
  /\ inbox' = <<[ID |-> Len(inbox) + 1, html |-> shape.html, body |-> shape.body,
                 cbody |-> shape.cbody, text |-> shape.text, markup |-> shape.markup]>> \o inbox
  /\ UNCHANGED <<clients, lastEmailId, conn, ticks, fires, sent, ops, nFail, lastFetch>>
  /\ ScannerUnchanged
  /\ PollerUnchanged

\* the interval timer fires: the callback runs up to `await checkForEmails()`;
\* seen: the messages in the store when the GET is issued
TickFire ==
  /\ timers # {}
  /\ fires < MaxFires
  /\ EnvEvents < MaxEnv
  /\ fires' = fires + 1
  /\ ticks' = ticks \cup {[id |-> fires + 1, pc |-> "fetching", seen |-> Len(inbox), res |-> NoData]}
  /\ UNCHANGED <<clients, lastEmailId, conn, inbox, sent, ops, nFail, lastFetch>>
  /\ ScannerUnchanged
  /\ PollerUnchanged

\* the callback of tick t resumes after `await checkForEmails()`; the store
\* answered when it held n messages, at some moment since the GET was issued
TickResume(t, transport, n) ==
  /\ t \in ticks /\ t.pc = "fetching"
  /\ n \in t.seen..Len(inbox)
  /\ LET emailData == checkForEmails(transport, Newest(inbox, n))
     IN  /\ lastFetch' = Fetched(t.id, emailData, Source(transport, Newest(inbox, n)))
         /\ IF ~emailData.ok
           THEN \E fails \in Fails(clients) :
                  LET b == broadcast(clients, Event("scan_error", Null, FALSE), fails, t.id)
                  IN  /\ clients' = b.clients
                      /\ sent' = Append(sent, b.entry)
                      /\ nFail' = nFail + Cardinality(fails)
                      /\ ticks' = ticks \ {t}
                      /\ UNCHANGED lastEmailId
           ELSE IF IsNew(emailData, lastEmailId)
             THEN \E fails \in Fails(clients) :
                  LET b == broadcast(clients,
                                     ItemObserved(emailData),
                                     fails, t.id)
                  IN  /\ lastEmailId' = emailData.emailId
                      /\ clients' = b.clients
                      /\ sent' = Append(sent, b.entry)
                      /\ nFail' = nFail + Cardinality(fails)
                      /\ ticks' = IF HasContentToScan(emailData.htmlContent)
                                    THEN (ticks \ {t}) \cup
                                         {[id |-> t.id, pc |-> "scanning", seen |-> t.seen,
                                           res |-> emailData]}
                                    ELSE ticks \ {t}
             ELSE /\ ticks' = ticks \ {t}
                  /\ UNCHANGED <<clients, lastEmailId, sent, nFail>>
  /\ UNCHANGED <<conn, inbox, fires, ops>>
  /\ ScannerUnchanged
  /\ PollerUnchanged

\* `await scanHtml()` of tick t settles: the scan returned its report or threw
ScanDone(t, threw) ==
  /\ t \in ticks /\ t.pc = "scanning"
  /\ Throws(Parse(t.res.markup)) => threw
  /\ \E fails \in Fails(clients) :
       LET b == broadcast(clients,
                          Event(IF threw THEN "scan_error" ELSE "scan_complete",
                                t.res.emailId, FALSE),
                          fails, t.id)
       IN  /\ clients' = b.clients
           /\ sent' = Append(sent, b.entry)
           /\ nFail' = nFail + Cardinality(fails)
  /\ IF threw THEN ScannerUnchanged
     ELSE /\ document' = Parse(t.res.markup)
          /\ results' = scanHtml(Parse(t.res.markup))
          /\ nScan' = nScan + 1
          /\ ControllerUnchanged
  /\ ticks' = ticks \ {t}
  /\ UNCHANGED <<lastEmailId, conn, inbox, fires, ops, lastFetch>>
  /\ PollerUnchanged

Next ==
  \/ \E o \in Observers : Attach(o)
  \/ \E o \in Observers : Close(o)
  \/ \E shape \in MsgShapes : Arrive(shape)
  \/ TickFire
  \/ \E t \in ticks, transport \in Transports, n \in 0..MaxMsgs : TickResume(t, transport, n)
  \/ \E t \in ticks, threw \in BOOLEAN : ScanDone(t, threw)

Spec == Init /\ [][Next]_vars

\* setInterval fires again and again for as long as its timer is armed
LiveSpec == Spec /\ WF_vars(TickFire)

\* ------------------------------------------------- the scanner on its own
\* scanHtml called with any document, as POST /api/scan does
ScanInit ==
  /\ NewListener
  /\ document \in Documents
  /\ results = NoResults
  /\ nScan = 0
  /\ NoController

\* one call of scanHtml, which returns its report or throws
Evaluate ==
  /\ nScan < MaxScans
  /\ IF Throws(document)
       THEN results' = Rejected /\ nScan' = nScan
       ELSE results' = scanHtml(document) /\ nScan' = nScan + 1
  /\ ControllerUnchanged
  /\ UNCHANGED <<clients, lastEmailId, conn, inbox, ticks, fires, sent, ops, nFail,
                 lastFetch, document>>
  /\ PollerUnchanged

ScanNext == Evaluate

ScanSpec == ScanInit /\ [][ScanNext]_vars

\* ------------------------------------------- the mail fetch on its own
\* every combination of the four places a message may keep its body in
AllShapes ==
  [html : StrClasses, body : StrClasses, cbody : StrClasses, text : StrClasses,
   markup : {"<img>"}]

\* a message of the store
Stored(id, shape) ==
  [ID |-> id, html |-> shape.html, body |-> shape.body, cbody |-> shape.cbody,
   text |-> shape.text, markup |-> shape.markup]

\* an older message, whose body is an html part
Older == Stored(1, [html |-> "text", body |-> "absent", cbody |-> "absent",
                    text |-> "absent", markup |-> "<img>"])

\* the store as GET /api/emails may find it: empty, or any message as the
\* newest, alone or in front of an older one
FetchInit ==
  /\ clients = <<>>
  /\ lastEmailId = Null
  /\ isPolling = FALSE
  /\ pollingInterval = Null
  /\ timers = {}
  /\ timerSeq = 0
  /\ conn = [o \in Observers |-> "new"]
  /\ inbox \in {<<>>} \cup {<<Stored(1, s)>> : s \in AllShapes}
                    \cup {<<Stored(2, s), Older>> : s \in AllShapes}
  /\ ticks = {}
  /\ fires = 0
  /\ sent = <<>>
  /\ ops = <<>>
  /\ nStart = 0
  /\ nStop = 0
  /\ nFail = 0
  /\ lastFetch = NoFetch
  /\ document = <<>>
  /\ results = NoResults
  /\ nScan = 0
  /\ NoController

\* EmailController.checkForEmails: one call of the service, answered with
\* its result or with status 500
CheckEmails(transport) ==
  /\ lastFetch' = Fetched(0, checkForEmails(transport, inbox), Source(transport, inbox))
  /\ UNCHANGED <<clients, lastEmailId, conn, inbox, ticks, fires, sent, ops, nFail>>
  /\ ScannerUnchanged
  /\ PollerUnchanged

FetchNext == \E transport \in Transports : CheckEmails(transport)

FetchSpec == FetchInit /\ [][FetchNext]_vars

\* ------------------------------------- a broadcast pass, write by write
\* the tick callback of a failed poll, with broadcast(event) taken one step
\* of its forEach at a time. A tick inside broadcast has pc "broadcasting",
\* the clients its forEach has still to visit (rest), the clients it wrote to
\* (to), its deadClients (dead), and the set as the forEach found it (start).
\* ops also logs each write, each write that threw and each removal.

\* a broadcast that awaits each write, and so lets other callbacks run
\* between two writes
RunningYields == FALSE
\* the forEach of broadcast and the loop that deletes run without an await:
\* no other callback starts before broadcast has returned
Running == \E t \in ticks : t.pc = "broadcasting"

PassAttach(o) == ~Running /\ Attach(o)

PassClose(o) == ~Running /\ Close(o)

PassTickFire == ~Running /\ TickFire

\* the catch of the tick callback calls broadcast: `const deadClients = []`
PassBegin(t) ==
  /\ ~Running
  /\ t \in ticks /\ t.pc = "fetching"
  /\ ticks' = (ticks \ {t}) \cup
                {[id |-> t.id, pc |-> "broadcasting", rest |-> clients, to |-> <<>>,
                  dead |-> <<>>, start |-> clients]}
  /\ lastFetch' = Fetched(t.id, FetchError, "none")
  /\ UNCHANGED <<clients, lastEmailId, conn, inbox, fires, sent, ops, nFail>>
  /\ ScannerUnchanged
  /\ PollerUnchanged

\* one turn of the forEach: client.write, and deadClients.push in the catch
PassWrite(t, throws) ==
  /\ t \in ticks /\ t.pc = "broadcasting" /\ t.rest # <<>>
  /\ throws => EnvEvents < MaxEnv
  /\ LET client == Head(t.rest)
     IN  /\ ticks' = (ticks \ {t}) \cup
                      {[t EXCEPT !.rest = Tail(t.rest),
                                 !.to = IF throws THEN @ ELSE Append(@, client),
                                 !.dead = IF throws THEN Append(@, client) ELSE @]}
         /\ ops' = Append(ops, <<IF throws THEN "throw" ELSE "write", t.id, client>>)
  /\ nFail' = nFail + (IF throws THEN 1 ELSE 0)
  /\ UNCHANGED <<clients, lastEmailId, conn, inbox, fires, sent, lastFetch>>
  /\ ScannerUnchanged
  /\ PollerUnchanged

\* after the forEach: deadClients.forEach(client => this.clients.delete(client))
PassEnd(t) ==
  /\ t \in ticks /\ t.pc = "broadcasting" /\ t.rest = <<>>
  /\ clients' = DeleteAll(clients, Members(t.dead))
  /\ sent' = Append(sent, [type |-> "scan_error", emailId |-> Null, hasContent |-> FALSE,
                           to |-> t.to, tick |-> t.id])
  /\ ops' = Append(ops, <<"removed", t.id, t.dead>>)
  /\ ticks' = ticks \ {t}
  /\ UNCHANGED <<lastEmailId, conn, inbox, fires, nFail, lastFetch>>
  /\ ScannerUnchanged
  /\ PollerUnchanged

PassNext ==
  \/ \E o \in Observers : PassAttach(o)
  \/ \E o \in Observers : PassClose(o)
  \/ PassTickFire
  \/ \E t \in ticks : PassBegin(t)
  \/ \E t \in ticks, throws \in BOOLEAN : PassWrite(t, throws)
  \/ \E t \in ticks : PassEnd(t)

PassSpec == Init /\ [][PassNext]_vars

\* --------------------------------------------- three firings of the timer
\* the listener with one observer that stays, over one firing more than MaxFires
MaxOverlap == 3

\* the interval timer fires, as in TickFire
OverlapFire ==
  /\ timers # {}
  /\ fires < MaxOverlap
  /\ EnvEvents < MaxEnv
  /\ fires' = fires + 1
  /\ ticks' = ticks \cup {[id |-> fires + 1, pc |-> "fetching", seen |-> Len(inbox), res |-> NoData]}
  /\ UNCHANGED <<clients, lastEmailId, conn, inbox, sent, ops, nFail, lastFetch>>
  /\ ScannerUnchanged
  /\ PollerUnchanged

OverlapNext ==
  \/ Attach(1)
  \/ \E shape \in MsgShapes : Arrive(shape)
  \/ OverlapFire
  \/ \E t \in ticks, transport \in Transports, n \in 0..MaxMsgs : TickResume(t, transport, n)
  \/ \E t \in ticks, threw \in BOOLEAN : ScanDone(t, threw)

OverlapSpec == Init /\ [][OverlapNext]_vars

\* ------------------------------------------- the controller of POST /api/scan
\* requests handled one after the other; each entry of responses keeps the
\* request, the scanner calls made for it, how the scan and the report mail
\* ended, and the status sent
Respond(status, outcome, thrown, mailed) ==
  /\ responses' = Append(responses,
                         [id |-> request.id, body |-> request.body, status |-> status,
                          scans |-> request.scans, outcome |-> outcome,
                          thrown |-> thrown, mailed |-> mailed])
  /\ request' = NoRequest

\* the router calls scanHtml(req, res): the validation, and the call of the
\* scanner when it passes
Receive(body) ==
  /\ request = NoRequest
  /\ Len(responses) < MaxRequests
  /\ IF Validate(body.html) # 0
       THEN /\ responses' = Append(responses,
                                   [id |-> Len(responses) + 1, body |-> body,
                                    status |-> Validate(body.html), scans |-> 0,
                                    outcome |-> "none", thrown |-> <<>>,
                                    mailed |-> "none"])
            /\ request' = NoRequest
       ELSE /\ request' = [pc |-> "scanning", id |-> Len(responses) + 1, body |-> body,
                           scans |-> 1]
            /\ UNCHANGED responses

\* `await this.scanner.scanHtml()` settles
ScanSettles(outcome) ==
  /\ request.pc = "scanning"
  /\ IF outcome.threw THEN Respond(StatusCode(outcome.message), "threw", outcome.message, "none")
     ELSE IF request.body.sendEmail
       THEN request' = [request EXCEPT !.pc = "mailing"] /\ UNCHANGED responses
     ELSE Respond(200, "report", <<>>, "none")

\* `await this.sendReportEmail()` settles
MailSettles(failed) ==
  /\ request.pc = "mailing"
  /\ Respond(200, "report", <<>>, IF failed THEN "failed" ELSE "sent")

ControllerNext ==
  /\ \/ \E body \in Requests : Receive(body)
     \/ \E outcome \in ScanOutcomes : ScanSettles(outcome)
     \/ \E failed \in BOOLEAN : MailSettles(failed)
  /\ UNCHANGED <<clients, lastEmailId, conn, inbox, ticks, fires, sent, ops, nFail,
                 lastFetch, document, results, nScan>>
  /\ PollerUnchanged

ControllerSpec == Init /\ [][ControllerNext]_vars

TypeOK ==
  /\ Members(clients) \subseteq Observers
  /\ Len(clients) = Cardinality(Members(clients))
  /\ lastEmailId \in MsgIds \cup {Null}
  /\ isPolling \in BOOLEAN
  /\ pollingInterval \in timers \cup {Null}
  /\ conn \in [Observers -> {"new", "open", "closed"}]
  /\ fires \in 0..MaxFires
  /\ \A t \in ticks : t.id \in 1..fires /\ t.pc \in {"fetching", "scanning"}
  /\ EnvEvents <= MaxEnv

\* ================================================================ claims
AttachStep(o) == conn[o] = "new" /\ conn'[o] = "open"
CloseStep(o) == conn[o] = "open" /\ conn'[o] = "closed"
CountersSame == nStart' = nStart /\ nStop' = nStop

\* the run attach A, attach B, detach A, detach B
RunABAB == ops = << <<"attach", 1>>, <<"attach", 2>>, <<"close", 1>>, <<"close", 2>> >>

\* C1: attaching while Idle moves the poller Idle -> Polling; attaching while
\* Polling leaves it Polling; a detach that leaves an observer attached leaves
\* it Polling; the detach that empties the set moves it Polling -> Idle; the
\* run attach A, attach B, detach A, detach B has exactly one transition each way.
C1_StartStopOnce ==
  /\ [][\A o \in Observers :
          /\ AttachStep(o) /\ ~isPolling =>
               isPolling' /\ nStart' = nStart + 1 /\ nStop' = nStop
          /\ AttachStep(o) /\ isPolling => isPolling' /\ CountersSame
          /\ CloseStep(o) /\ clients' # <<>> => isPolling' /\ CountersSame
          /\ CloseStep(o) /\ clients' = <<>> /\ isPolling =>
               ~isPolling' /\ nStop' = nStop + 1 /\ nStart' = nStart]_vars
  /\ [](RunABAB => nStart = 1 /\ nStop = 1 /\ ~isPolling)

C1_Witness == RunABAB /\ nStart = 1 /\ nStop = 1

\* C2: the poller is Polling if and only if the observer set is non-empty.
C2_PollingIffNonEmpty == isPolling <=> clients # <<>>

\* an event was appended by the step
Emitted == sent' # sent
FetchCompleted == lastFetch' # lastFetch

\* C3: a successful fetch that returns no item, or an item whose identifier
\* equals the cursor, broadcasts nothing and leaves the cursor unchanged; a
\* successful fetch returning the identifier the previous completed fetch
\* returned produces no event.
C3_Dedup ==
  [][FetchCompleted /\ lastFetch'.ok =>
       /\ (lastFetch'.emailId = Null \/ lastFetch'.emailId = lastEmailId) =>
            ~Emitted /\ lastEmailId' = lastEmailId
       /\ (lastFetch.ok /\ lastFetch.emailId # Null
           /\ lastFetch'.emailId = lastFetch.emailId) => ~Emitted]_vars

TickEntries(k) == {i \in 1..Len(sent) : sent[i].tick = k}

\* two fetches in a row returned message 1 and only the first one spoke
C3_Witness ==
  /\ lastFetch.tick = 2 /\ lastFetch.ok /\ lastFetch.emailId = 1
  /\ lastEmailId = 1
  /\ TickEntries(2) = {}
  /\ \E i \in TickEntries(1) : sent[i].type = "email_received"

\* the log entries by kind
IsItem(e) == e.type = "email_received"
IsOutcome(e) == e.type \in {"scan_complete", "scan_error"} /\ e.emailId # Null
IsStatus(e) == e.type = "status_update"
Recipients(e) == {e.to[i] : i \in 1..Len(e.to)}

\* entry j is a scan outcome and entry i < j is the email_received of its tick
ItemOf(i, j) ==
  /\ i < j /\ IsItem(sent[i])
  /\ sent[i].emailId = sent[j].emailId /\ sent[i].tick = sent[j].tick

\* C4 as stated: the email_received of an identifier is broadcast before its
\* scan outcome, and no observer receives the outcome before the email_received.
C4_ItemBeforeOutcomePerObserver ==
  \A j \in 1..Len(sent) : IsOutcome(sent[j]) =>
    /\ \E i \in 1..Len(sent) : ItemOf(i, j)
    /\ \A o \in Recipients(sent[j]) :
         \E i \in 1..Len(sent) : ItemOf(i, j) /\ o \in Recipients(sent[i])

\* C4 (amended): the email_received of an identifier is broadcast before its
\* scan outcome; an observer that receives the outcome received the
\* email_received too, unless it attached between the two broadcasts.
C4_ItemBeforeOutcome ==
  \A j \in 1..Len(sent) : IsOutcome(sent[j]) =>
    /\ \E i \in 1..Len(sent) : ItemOf(i, j)
    /\ \A o \in Recipients(sent[j]) :
         \E i \in 1..Len(sent) :
           /\ ItemOf(i, j)
           /\ \/ o \in Recipients(sent[i])
              \/ \E k \in (i + 1)..(j - 1) : IsStatus(sent[k]) /\ sent[k].to = <<o>>

\* an outcome reached an observer that had received the email_received, and
\* another that attached during the scan
C4_Witness ==
  \E i, j \in 1..Len(sent) :
    /\ IsOutcome(sent[j]) /\ ItemOf(i, j)
    /\ 1 \in Recipients(sent[i]) /\ 1 \in Recipients(sent[j])
    /\ 2 \notin Recipients(sent[i]) /\ 2 \in Recipients(sent[j])

\* C5: at most one tick is in flight at every moment.
C5_NoOverlap == Cardinality(ticks) <= 1

\* C6: the scan outcome of an arrival is broadcast before the email_received
\* of any later arrival, and the outcomes come in the order of their
\* email_received events.
C6_OutcomeBeforeNextItem ==
  /\ \A i, j \in 1..Len(sent) :
       (i < j /\ IsItem(sent[i]) /\ IsItem(sent[j]) /\ sent[i].hasContent) =>
         \E k \in (i + 1)..(j - 1) : IsOutcome(sent[k]) /\ ItemOf(i, k)
  /\ \A k, l \in 1..Len(sent) :
       (k < l /\ IsOutcome(sent[k]) /\ IsOutcome(sent[l])) =>
         \E i, j \in 1..Len(sent) : ItemOf(i, k) /\ ItemOf(j, l) /\ i < j

\* C7: once the last detach has stopped the poller, no timer is armed and no
\* tick fires (no fetch is issued) until an attach starts it again.
C7_NoTickWhileIdle ==
  /\ [][fires' # fires => isPolling]_vars
  /\ [](~isPolling => timers = {})

\* the poller was stopped after ticking, and there are firings left
C7_Witness == nStop >= 1 /\ ~isPolling /\ fires >= 1 /\ fires < MaxFires /\ EnvEvents < MaxEnv

BroadcastStep == Emitted /\ sent'[Len(sent')].tick # 0
Occurrences(seq, o) == Cardinality({i \in 1..Len(seq) : seq[i] = o})

\* C8: a broadcast pass writes to every observer of the set: an observer
\* whose write succeeds receives the event once and stays, an observer whose
\* write fails is out of the set after the pass, and the others are served
\* wherever the failing one stands.
C8_BroadcastPass ==
  [][BroadcastStep =>
       LET e == sent'[Len(sent')]
       IN  /\ sent' = Append(sent, e)
           /\ Recipients(e) \subseteq Members(clients)
           /\ \A o \in Members(clients) :
                \/ Occurrences(e.to, o) = 1 /\ o \in Members(clients')
                \/ Occurrences(e.to, o) = 0 /\ o \notin Members(clients')
           /\ clients' = SelectSeq(clients, LAMBDA o : o \in Recipients(e))]_vars

\* a pass in which the first observer of the set failed and the second was served
C8_Witness ==
  /\ conn = [o \in Observers |-> "open"]
  /\ \E j \in 1..Len(sent) :
       /\ sent[j].tick # 0 /\ sent[j].to = <<2>>
       /\ \A i \in 1..(j - 1) : IsStatus(sent[i]) /\ Len(sent[i].to) = 1
  /\ clients = <<2>>

\* C9 as stated: attach adds the observer and delivers one status_update to
\* it and to nobody else.
C9_AttachDeliversStatus ==
  [][\A o \in Observers : AttachStep(o) =>
       /\ o \in Members(clients')
       /\ sent' = Append(sent, sent'[Len(sent')])
       /\ IsStatus(sent'[Len(sent')]) /\ sent'[Len(sent')].to = <<o>>]_vars

\* C9 (amended): attach writes one status_update, to that observer only; the
\* observer is in the set afterwards when the write succeeded and out of it
\* when the write threw; the other members and the frames already sent are
\* untouched.
C9_AttachStatusOrDrop ==
  [][\A o \in Observers : AttachStep(o) =>
       LET e == sent'[Len(sent')]
       IN  /\ sent' = Append(sent, e)
           /\ IsStatus(e)
           /\ \/ e.to = <<o>> /\ clients' = Append(clients, o)
              \/ e.to = <<>> /\ clients' = clients]_vars

\* the second observer attached and got its status_update, the first one got
\* only its own
C9_Witness ==
  /\ Len(sent) = 2 /\ sent[1].to = <<1>> /\ sent[2].to = <<2>>
  /\ clients = <<1, 2>>

InFlight(k) == \E t \in ticks : t.id = k
Outcomes(k) == {i \in TickEntries(k) : IsOutcome(sent[i])}
Items(k) == {i \in TickEntries(k) : IsItem(sent[i])}

\* C10: a tick whose fetch returns an item that differs from the cursor sets
\* the cursor to it and broadcasts one email_received; one scan outcome
\* follows if and only if the body is non-empty, and hasContent is true
\* exactly then.
C10_NewItem ==
  /\ [][(FetchCompleted /\ lastFetch'.ok /\ lastFetch'.emailId # Null
         /\ lastFetch'.emailId # lastEmailId) =>
          LET e == sent'[Len(sent')]
          IN  /\ lastEmailId' = lastFetch'.emailId
              /\ sent' = Append(sent, e)
              /\ IsItem(e) /\ e.emailId = lastFetch'.emailId /\ e.tick = lastFetch'.tick
              /\ e.hasContent <=> ExtractBody(CHOOSE m \in Members(inbox) : m.ID = e.emailId) # "empty"
              /\ e.hasContent <=> \E t \in ticks' : t.id = e.tick /\ t.pc = "scanning"]_vars
  /\ [](\A k \in 1..fires :
          /\ Cardinality(Items(k)) <= 1
          /\ \A i \in Items(k) :
               /\ \A j \in Outcomes(k) : i < j
               /\ Cardinality(Outcomes(k)) =
                    IF sent[i].hasContent /\ ~InFlight(k) THEN 1 ELSE 0
          /\ Items(k) = {} => Outcomes(k) = {})

\* one arrival with a body was scanned, one without was only announced
C10_Witness ==
  \E i, j \in 1..Len(sent) :
    /\ IsItem(sent[i]) /\ sent[i].hasContent /\ Outcomes(sent[i].tick) # {}
    /\ IsItem(sent[j]) /\ ~sent[j].hasContent /\ ~InFlight(sent[j].tick)

\* the step is the resumption of a tick whose fetch failed in the transport
PollFailedStep == \E t \in ticks, n \in 0..MaxMsgs : TickResume(t, "unreachable", n)

\* C11: a tick whose fetch fails with a transport error broadcasts one
\* poll-failure event (no identifier, only a reason), leaves the cursor and
\* the poller (state and timer) as they are, and ends without a second fetch.
C11_PollFailure ==
  [][PollFailedStep =>
       LET e == sent'[Len(sent')]
       IN  /\ sent' = Append(sent, e)
           /\ e.emailId = Null /\ e.tick = lastFetch'.tick /\ ~IsItem(e) /\ ~IsStatus(e)
           /\ lastEmailId' = lastEmailId
           /\ isPolling' = isPolling /\ timers' = timers
           /\ pollingInterval' = pollingInterval
           /\ fires' = fires
           /\ ~\E t \in ticks' : t.id = e.tick]_vars

\* a fetch failed while the poller was polling, and the timer is still armed
C11_Witness ==
  /\ ~lastFetch.ok /\ lastFetch.tick = 1
  /\ isPolling /\ timers # {} /\ lastEmailId = Null
  /\ \E i \in TickEntries(1) : sent[i].emailId = Null /\ sent[i].to = <<1>>

\* the step is the settling of a scan that threw
ScanThrewStep == \E t \in ticks : ScanDone(t, TRUE)

\* C12: every email_received with a body is followed by exactly one scan
\* outcome of its tick and identifier, scan_complete or scan_error, once the
\* tick has ended and by none before; a scan that throws leaves the poller
\* polling and its timer armed.
C12_OneOutcome ==
  /\ [](\A i \in 1..Len(sent) : (IsItem(sent[i]) /\ sent[i].hasContent) =>
          /\ Cardinality(Outcomes(sent[i].tick)) = IF InFlight(sent[i].tick) THEN 0 ELSE 1
          /\ \A j \in Outcomes(sent[i].tick) : sent[j].emailId = sent[i].emailId)
  /\ [][ScanThrewStep =>
          /\ sent'[Len(sent')].type = "scan_error" /\ Len(sent') = Len(sent) + 1
          /\ isPolling' = isPolling /\ timers' = timers
          /\ pollingInterval' = pollingInterval]_vars

\* the scan of the first tick threw; the poller polls and a second tick runs
C12_Witness ==
  /\ \E j \in Outcomes(1) : sent[j].type = "scan_error" /\ sent[j].to # <<>>
  /\ \E t \in ticks : t.id = 2 /\ t.seen = 1
  /\ isPolling

\* the frame of a failed fetch: sent by a tick, without an identifier
IsPollFailed(e) == e.tick # 0 /\ e.emailId = Null
\* the frame of a scan that threw: sent by a tick for an identifier that was
\* announced, and not the report
IsScanFailed(e) == IsOutcome(e) /\ e.type # "scan_complete"

\* C13: a failed fetch and a failed scan are reported with different event
\* types, so the type alone tells an observer which of the two happened.
C13_DistinctKinds ==
  \A i, j \in 1..Len(sent) :
    (IsPollFailed(sent[i]) /\ IsScanFailed(sent[j])) => sent[i].type # sent[j].type

\* C14: the cursor is written only by a tick that completes a fetch; its new
\* value is the identifier that fetch returned, the fetch is the latest one
\* issued, and the cursor never goes back to an older identifier.
C14_CursorFollowsLatestFetch ==
  [][lastEmailId' # lastEmailId =>
       /\ FetchCompleted
       /\ lastEmailId' = lastFetch'.emailId
       /\ lastFetch'.tick = fires
       /\ lastEmailId' > lastEmailId]_vars

\* a write of a tick's broadcast threw in the step
FailedWriteStep == BroadcastStep /\ nFail' > nFail

\* C17: a failed write during a tick's broadcast removes the failing
\* observers and nobody else, adds no frame besides the one being broadcast,
\* leaves the cursor where the tick put it, leaves the poller alone, and does
\* not end the tick: after a failed write of email_received for a message
\* with a body the scan is still awaited, and its outcome goes to the
\* observers that remain.
C17_DeliveryFailure ==
  /\ [][FailedWriteStep =>
          LET e == sent'[Len(sent')]
          IN  /\ sent' = Append(sent, e)
              /\ Cardinality(Members(clients) \ Members(clients')) = nFail' - nFail
              /\ Members(clients') \subseteq Members(clients)
              /\ e.to = clients'
              /\ lastEmailId' = IF IsItem(e) THEN e.emailId ELSE lastEmailId
              /\ (IsItem(e) /\ e.hasContent) =>
                   \E t \in ticks' : t.id = e.tick /\ t.pc = "scanning"
              /\ isPolling' = isPolling /\ timers' = timers]_vars
  /\ [][\A t \in ticks, threw \in BOOLEAN : ScanDone(t, threw) =>
          /\ Recipients(sent'[Len(sent')]) = Members(clients')
          /\ Members(clients) \ Members(clients') =
               Members(clients) \ Recipients(sent'[Len(sent')])]_vars

\* the write of email_received to the first observer threw; the second
\* observer received it and, later, the outcome of the scan
C17_Witness ==
  \E i, j \in 1..Len(sent) :
    /\ ItemOf(i, j) /\ IsOutcome(sent[j])
    /\ sent[i].to = <<2>> /\ sent[j].to = <<2>>
    /\ nFail = 1 /\ conn[1] = "open" /\ clients = <<2>>
    /\ \A k \in 1..(i - 1) : IsStatus(sent[k])
    /\ \E k \in 1..(i - 1) : sent[k].to = <<1>>
    /\ \E k \in 1..(i - 1) : sent[k].to = <<2>>
    /\ lastEmailId = sent[i].emailId

\* a tick has issued its fetch and awaits the answer
Fetching == \E t \in ticks : t.pc = "fetching"

\* C16: while an observer is attached the timer keeps firing, whatever
\* failed before: from every state with an attached observer and no tick in
\* flight (and room left in the bounds of the model) a tick fires and issues
\* a fetch, unless the last observer leaves first.
C16_TickAgain ==
  (clients # <<>> /\ ticks = {} /\ fires < MaxFires /\ EnvEvents < MaxEnv)
    ~> (Fetching \/ clients = <<>> \/ EnvEvents >= MaxEnv)

\* a scan threw and a write threw, an observer is still attached, and the
\* timer can fire again
C16_Witness ==
  /\ \E j \in 1..Len(sent) : IsScanFailed(sent[j])
  /\ nFail >= 1 /\ clients # <<>> /\ ticks = {}
  /\ ENABLED TickFire

\* the findings of a rule in a collection of a report
OfRule(collection, id) == {i \in 1..Len(collection) : collection[i].id = id}

\* the message with an identifier
Message(id) == CHOOSE m \in Members(inbox) : m.ID = id

\* C15: one observer is attached and no write fails; the first tick fetches
\* a message whose HTML body is an <img> without alt and its scan returns.
\* Then the tick has written to the observer the email_received of the
\* message, with hasContent true, and after it the scan_complete of the same
\* identifier, and the report has one image-alt violation and no image-alt pass.
C15_EndToEnd ==
  \A i \in Items(1) :
    ( /\ ops = << <<"attach", 1>> >> /\ nFail = 0
      /\ Message(sent[i].emailId).html = "text"
      /\ Message(sent[i].emailId).markup = "<img>"
      /\ ~InFlight(1) /\ nScan = 1
      /\ \E j \in Outcomes(1) : sent[j].type = "scan_complete" )
    => /\ sent[i].hasContent /\ sent[i].to = <<1>>
       /\ \E j \in Outcomes(1) :
            /\ TickEntries(1) = {i, j} /\ i < j
            /\ sent[j].type = "scan_complete" /\ sent[j].emailId = sent[i].emailId
            /\ sent[j].to = <<1>>
       /\ document = <<Node("img")>>
       /\ Cardinality(OfRule(results.violations, "image-alt")) = 1
       /\ Cardinality(OfRule(results.passes, "image-alt")) = 0

\* the run: attach, a message with an <img> arrives, the timer fires, the
\* fetch returns the message, the scan returns
C15_Witness ==
  /\ ops = << <<"attach", 1>> >> /\ nFail = 0 /\ fires = 1 /\ ticks = {}
  /\ Len(inbox) = 1 /\ inbox[1].markup = "<img>"
  /\ Len(sent) = 3 /\ sent[2].type = "email_received" /\ sent[3].type = "scan_complete"
  /\ nScan = 1 /\ Len(results.violations) = 1

\* the eight rules: the identifier their findings carry, the elements they
\* are about (for link-name the anchors, with or without href)
Rules ==
  { [id |-> "image-alt", tags |-> {"img"}],
    [id |-> "button-name", tags |-> {"button"}],
    [id |-> "label", tags |-> {"input"}],
    [id |-> "heading-order", tags |-> HeadingTags],
    [id |-> "link-name", tags |-> {"a"}],
    [id |-> "th-has-data-cells", tags |-> {"table"}],
    [id |-> "video-caption", tags |-> {"video"}],
    [id |-> "canvas-replaced-text", tags |-> {"canvas"}] }

Evaluated == nScan >= 1

\* C18: a rule that finds none of its elements in the document puts an
\* inapplicable finding into the report.
C18_InapplicableWhenAbsent ==
  Evaluated =>
    \A r \in Rules :
      QuerySelectorAll(document, r.tags) = <<>> => OfRule(results.inapplicable, r.id) # {}

\* the findings of a collection for a rule and a target
At(collection, id, target) ==
  {i \in OfRule(collection, id) :
     collection[i].nodes # <<>> /\ collection[i].nodes[1].target = target}

\* the element-level rules: identifier, the elements the check selects, and
\* the name its targets use
ElementRules ==
  { [id |-> "image-alt", sel |-> "img", tags |-> {"img"}],
    [id |-> "button-name", sel |-> "button", tags |-> {"button"}],
    [id |-> "label", sel |-> "input", tags |-> {"input"}],
    [id |-> "heading-order", sel |-> "heading", tags |-> HeadingTags],
    [id |-> "link-name", sel |-> "a", tags |-> {"a"}],
    [id |-> "th-has-data-cells", sel |-> "table", tags |-> {"table"}] }

\* the elements an element-level rule applies to: a[href] for link-name
Matching(doc, r) ==
  SelectSeq(doc, LAMBDA e : e.tagName \in r.tags /\ (r.id = "link-name" => e.hasHref))

C20_HeadingOrder ==
  Evaluated =>
    LET hs == QuerySelectorAll(document, HeadingTags)
        V(k) == At(results.violations, "heading-order", <<"heading", k - 1>>)
        P(k) == At(results.passes, "heading-order", <<"heading", k - 1>>)
        Skips(k) == k > 1 /\ Level(hs[k].tagName) > Level(hs[k - 1].tagName) + 1
    IN  /\ \A k \in 1..Len(hs) :
              /\ Skips(k) => Cardinality(V(k)) = 1 /\ P(k) = {}
              /\ ~Skips(k) => Cardinality(P(k)) = 1 /\ V(k) = {}
              /\ \A i \in V(k) : results.violations[i].impact = "moderate"
        /\ document = <<Node("h1"), Node("h3")>> =>
             Cardinality(OfRule(results.violations, "heading-order")) = 1
        /\ document = <<Node("h1"), Node("h2"), Node("h3")>> =>
             OfRule(results.violations, "heading-order") = {}

\* h1 h3 h4 was evaluated: h3 violates and h4, one above h3, passes
C20_Witness ==
  /\ Evaluated
  /\ document = <<Node("h1"), Node("h3"), Node("h4")>>
  /\ Len(results.violations) = 1 /\ Len(results.passes) = 2
  /\ results.violations[1].nodes[1].target = <<"heading", 1>>

\* the anchor with an href and a text
Link(text) == [Node("a") EXCEPT !.hasHref = TRUE, !.textContent = text]

\* C21: every link (an anchor with href) has one link-name finding: a
\* violation of impact serious if and only if its trimmed text is empty or is
\* exactly "Click here", "Read more", "Download" or "Learn more"; a pass
\* otherwise, as for "View our privacy policy" and "click here".
C21_LinkName ==
  Evaluated =>
    LET links == SelectSeq(document, LAMBDA e : e.tagName = "a" /\ e.hasHref)
        V(k) == At(results.violations, "link-name", <<"a", k - 1>>)
        P(k) == At(results.passes, "link-name", <<"a", k - 1>>)
        Generic(k) ==
          \/ Trim(links[k].textContent) = <<>>
          \/ \E t \in {"Click here", "Read more", "Download", "Learn more"} :
               Trim(links[k].textContent) = <<t>>
    IN  /\ \A k \in 1..Len(links) :
              /\ Generic(k) => Cardinality(V(k)) = 1 /\ P(k) = {}
              /\ ~Generic(k) => Cardinality(P(k)) = 1 /\ V(k) = {}
              /\ \A i \in V(k) : results.violations[i].impact = "serious"
        /\ document = <<Link(<<"Click here">>)>> => Len(results.violations) = 1
        /\ document = <<Link(<<"View our privacy policy">>)>> => results.violations = <<>>
        /\ document = <<Link(<<"click here">>)>> => results.violations = <<>>

\* a link with the text " Read more " and one with "click here" were
\* evaluated: the first violates, the second passes
C21_Witness ==
  /\ Evaluated
  /\ document = <<Link(<<Blank, "Read more", Blank>>), Link(<<"click here">>)>>
  /\ Len(results.violations) = 1 /\ Len(results.passes) = 1
  /\ results.violations[1].nodes[1].target = <<"a", 0>>

\* scanHtml was called and has returned or thrown
Attempted == nScan >= 1 \/ results = Rejected

\* the findings the caller of scanHtml holds: none when it threw
Report == IF results = Rejected THEN NoResults ELSE results

\* the label findings of the k-th input are as the rule says
LabelAsRuled(k) ==
  LET inputs == QuerySelectorAll(document, {"input"})
      V == At(Report.violations, "label", <<"input", k - 1>>)
      P == At(Report.passes, "label", <<"input", k - 1>>)
      Q == At(Report.incomplete, "label", <<"input", k - 1>>)
      N == At(Report.inapplicable, "label", <<"input", k - 1>>)
      Unnamed == /\ inputs[k].ariaLabel = <<>> /\ inputs[k].ariaLabelledby = <<>>
                 /\ ~\E i \in 1..Len(document) :
                      /\ document[i].tagName = "label" /\ document[i].hasFor
                      /\ document[i].htmlFor = inputs[k].id
  IN  /\ Q = {}
      /\ inputs[k].type = "hidden" => Cardinality(N) = 1 /\ V = {} /\ P = {}
      /\ (inputs[k].type # "hidden" /\ Unnamed) =>
           /\ Cardinality(V) = 1 /\ P = {} /\ N = {}
           /\ \A i \in V : Report.violations[i].impact = "critical"
      /\ (inputs[k].type # "hidden" /\ ~Unnamed) => Cardinality(P) = 1 /\ V = {} /\ N = {}

\* C22: every input has its label finding: a hidden input one inapplicable
\* finding and nothing else; a visible input a violation of impact critical
\* if and only if it has neither aria-label nor aria-labelledby nor a label
\* element whose for equals its id, and a pass otherwise.
C22_Label ==
  Attempted => \A k \in 1..Len(QuerySelectorAll(document, {"input"})) : LabelAsRuled(k)

\* the same for the evaluations that return
LabelRuleWhenReturned ==
  Evaluated => \A k \in 1..Len(QuerySelectorAll(document, {"input"})) : LabelAsRuled(k)

\* the findings of a rule in the four collections of the report
InAll(id) ==
  [c \in {"violations", "passes", "incomplete", "inapplicable"} |->
     Cardinality(OfRule(results[c], id))]

\* C23: in a report, video-caption has one incomplete finding when the
\* document has a video, however many, and none without; the canvas rule has
\* one inapplicable finding when the document has no canvas and none when it
\* has one; neither rule has a finding in another collection.
C23_DocumentLevel ==
  Evaluated =>
    LET video == InAll("video-caption")
        canvas == InAll("canvas-replaced-text")
        hasVideo == \E i \in 1..Len(document) : document[i].tagName = "video"
        hasCanvas == \E i \in 1..Len(document) : document[i].tagName = "canvas"
    IN  /\ video["incomplete"] = IF hasVideo THEN 1 ELSE 0
        /\ video["violations"] = 0 /\ video["passes"] = 0 /\ video["inapplicable"] = 0
        /\ canvas["inapplicable"] = IF hasCanvas THEN 0 ELSE 1
        /\ canvas["violations"] = 0 /\ canvas["passes"] = 0 /\ canvas["incomplete"] = 0

\* two videos and no canvas were evaluated: one incomplete, one inapplicable
C23_Witness ==
  /\ Evaluated
  /\ document = <<Node("video"), Node("video")>>
  /\ Len(results.incomplete) = 1 /\ Len(results.inapplicable) = 1

\* the rules in the order scanHtml runs them
RuleOrder ==
  <<"image-alt", "button-name", "label", "heading-order", "link-name",
    "th-has-data-cells", "video-caption", "canvas-replaced-text">>

Rank(id) == CHOOSE n \in 1..Len(RuleOrder) : RuleOrder[n] = id

\* the findings of a collection stand rule by rule in the order of the
\* rules and, within a rule, in the order of the elements
Ordered(collection) ==
  \A i, j \in 1..Len(collection) : i < j =>
    \/ Rank(collection[i].id) < Rank(collection[j].id)
    \/ /\ collection[i].id = collection[j].id
       /\ collection[i].nodes[1].target[2] < collection[j].nodes[1].target[2]

EmptyStoreStep == \E t \in ticks : TickResume(t, "ok", 0)

\* C25: a fetch on a reachable store without messages returns no item and
\* does not fail; the tick writes no event, leaves the cursor where it is and
\* ends.
C25_EmptyStore ==
  [][EmptyStoreStep =>
       /\ lastFetch'.ok /\ lastFetch'.emailId = Null
       /\ checkForEmails("ok", <<>>) = [ok |-> TRUE, hasNewEmail |-> FALSE, emailId |-> Null,
                                        htmlContent |-> "absent", markup |-> ""]
       /\ sent' = sent /\ lastEmailId' = lastEmailId /\ clients' = clients
       /\ ~\E t \in ticks' : t.id = lastFetch'.tick]_vars

\* the first tick ran on an empty store and ended: only the status frame of
\* the attach has been written
C25_Witness ==
  /\ inbox = <<>> /\ fires = 1 /\ ticks = {}
  /\ lastFetch.tick = 1 /\ lastFetch.ok /\ lastFetch.emailId = Null
  /\ Len(sent) = 1 /\ IsStatus(sent[1]) /\ lastEmailId = Null /\ clients = <<1>>

\* the step is the resumption of a tick whose fetch met an unreachable store,
\* or a response without a message list
BadFetchStep ==
  \E t \in ticks, n \in 0..MaxMsgs :
    TickResume(t, "unreachable", n) \/ TickResume(t, "noitems", n)

\* C26: a fetch fails when the store is unreachable and when its response
\* has no message list; it returns neither none nor an item.
C26_TransportError ==
  [][BadFetchStep => ~lastFetch'.ok]_vars

\* present and non-empty
Present(x) == x \notin {"absent", "empty"}

\* something is left of x once its escapes are replaced and it is trimmed
NonBlank(x) == x = "text"

\* the first of html part, Body, Content.Body that is present and non-empty
Preferred(m) ==
  IF Present(m.html) THEN [from |-> "htmlPart.Body", is |-> m.html]
  ELSE IF Present(m.body) THEN [from |-> "Body", is |-> m.body]
  ELSE IF Present(m.cbody) THEN [from |-> "Content.Body", is |-> m.cbody]
  ELSE [from |-> "none", is |-> "empty"]

EventTypes == {"email_received", "scan_complete", "scan_error", "status_update"}

\* the events written in the passes of tick k, in the order of the passes
FramesOfTick(k) ==
  LET own == SelectSeq(sent, LAMBDA e : e.tick = k)
  IN  [i \in 1..Len(own) |-> <<own[i].type, own[i].emailId>>]

\* what one tick may write: nothing, the failure of the poll, or the item
\* alone, followed by its report or followed by the failure of its scan
TickWrites ==
  {<<>>, << <<"scan_error", Null>> >>}
  \cup UNION {{ << <<"email_received", id>> >>,
                << <<"email_received", id>>, <<"scan_complete", id>> >>,
                << <<"email_received", id>>, <<"scan_error", id>> >> } : id \in MsgIds}

\* C28: every frame carries one event of type email_received, scan_complete,
\* scan_error or status_update; a tick writes the item as email_received, then
\* the report as scan_complete or the scan's failure as scan_error, an attach
\* writes status_update, and no tick writes status_update
C28_FrameTypes ==
  /\ \A i \in 1..Len(sent) :
       /\ sent[i].type \in EventTypes
       /\ sent[i].tick = 0 <=> sent[i].type = "status_update"
       /\ sent[i].tick = 0 => Len(sent[i].to) <= 1 /\ sent[i].emailId = Null
  /\ \A k \in 1..MaxFires : FramesOfTick(k) \in TickWrites

\* an attach, a tick that wrote an item and its report, and a tick that wrote
\* an item and the failure of its scan, each to an observer
C28_Witness ==
  /\ \E i \in 1..Len(sent) : sent[i].type = "status_update" /\ sent[i].to # <<>>
  /\ \E k \in 1..MaxFires, id \in MsgIds :
       FramesOfTick(k) = << <<"email_received", id>>, <<"scan_complete", id>> >>
  /\ \E k \in 1..MaxFires, id \in MsgIds :
       FramesOfTick(k) = << <<"email_received", id>>, <<"scan_error", id>> >>
  /\ \A i \in 1..Len(sent) : sent[i].tick # 0 => sent[i].to # <<>>
\* the close handler of o runs with the poller Idle and calls stopPolling
IdleStopStep(o) == CloseStep(o) /\ ~isPolling /\ clients' = <<>>

\* C29: startPolling on a poller that is polling and stopPolling on a poller
\* that is idle return it as it is; at most one timer is armed, and one is
\* armed exactly when isPolling is true, which is exactly when
\* pollingInterval is set, whatever ticks are in flight
C29_Idempotent ==
  /\ [](isPolling => startPolling(Poller) = Poller)
  /\ [](~isPolling => stopPolling(Poller) = Poller)
  /\ [][\A o \in Observers : IdleStopStep(o) => Poller' = Poller /\ CountersSame]_vars
  /\ [](Cardinality(timers) <= 1)
  /\ [](isPolling <=> timers # {})
  /\ [](isPolling <=> pollingInterval # Null)
  /\ [](pollingInterval # Null => timers = {pollingInterval})

\* observer 1 never entered the set (its first write threw), observer 2 came
\* and left, which stopped the poller, and then the close handler of 1 called
\* stopPolling on the idle poller, all while a tick was in flight
C29_Witness ==
  /\ ops = << <<"attach", 1>>, <<"attach", 2>>, <<"close", 2>>, <<"close", 1>> >>
  /\ nFail = 1 /\ sent[1].to = <<>>
  /\ ticks # {}
  /\ ~isPolling /\ nStart = 1 /\ nStop = 1
\* the entries of ops that a broadcast pass logged, and the pass of such an entry
OfPass(e) == e[1] \in {"write", "throw", "removed"}
PassOf(e) == e[2]

\* C30: between the first and the last write of a broadcast pass no attach and
\* no detach takes effect and no other pass writes; the observers whose write
\* threw are still in the set until the iteration is over, and are removed
\* after it
C30_PassExclusive ==
  /\ \A t \in ticks : t.pc = "broadcasting" =>
       /\ clients = t.start
       /\ Members(t.dead) \subseteq Members(clients)
  /\ \A i, j \in 1..Len(ops) :
       (i < j /\ OfPass(ops[i]) /\ OfPass(ops[j]) /\ PassOf(ops[i]) = PassOf(ops[j])) =>
         /\ \A k \in i..j : OfPass(ops[k]) /\ PassOf(ops[k]) = PassOf(ops[i])
         /\ ops[i][1] # "removed"
  /\ \A j \in 1..Len(ops) : ops[j][1] = "removed" =>
       Members(ops[j][3]) = {ops[i][3] : i \in {i \in 1..j : ops[i][1] = "throw"
                                                       /\ ops[i][2] = ops[j][2]}}

\* two ticks were in flight; the pass of one wrote to an observer, had the
\* write to the other throw and removed it, and the pass of the second tick
\* has begun
C30_Witness ==
  /\ \E i \in 1..Len(ops) : ops[i][1] = "write"
  /\ \E i \in 1..Len(ops) : ops[i][1] = "throw"
  /\ \E i \in 1..Len(ops) : ops[i][1] = "removed" /\ ops[i][3] # <<>>
  /\ \E t \in ticks : t.pc = "broadcasting" /\ Len(t.start) = 1
\* every node of finding f carries a failure explanation / none does
AllExplained(f) == \A n \in 1..Len(f.nodes) : f.nodes[n].failureSummary # <<>>
NoneExplained(f) == \A n \in 1..Len(f.nodes) : f.nodes[n].failureSummary = <<>>

\* C31: in every report a violation has a severity and an explanation on each
\* of its nodes; a pass and an inapplicable finding have the null severity and
\* no explanation on any node, so explanations appear in violations and
\* incomplete findings only
C31_SeverityAndSummary ==
  Evaluated =>
    /\ \A i \in 1..Len(results.violations) :
         /\ results.violations[i].impact # NoImpact
         /\ results.violations[i].nodes # <<>>
         /\ AllExplained(results.violations[i])
    /\ \A i \in 1..Len(results.passes) :
         results.passes[i].impact = NoImpact /\ NoneExplained(results.passes[i])
    /\ \A i \in 1..Len(results.inapplicable) :
         results.inapplicable[i].impact = NoImpact /\ NoneExplained(results.inapplicable[i])

\* a report with a violation, a pass, an inapplicable finding that has a
\* node (a hidden input) and the one that has none (no canvas)
C31_Witness ==
  /\ Evaluated
  /\ results.violations # <<>> /\ results.passes # <<>>
  /\ \E i \in 1..Len(results.inapplicable) : results.inapplicable[i].nodes = <<>>
\* the newest identifier of the store never reverts: the store only grows,
\* by messages with larger identifiers, newest first
NewestNeverReverts == \A i \in 1..Len(inbox) : inbox[i].ID = Len(inbox) - i + 1

\* C32: each identifier is announced by at most one email_received broadcast
\* and scanned at most once, in every interleaving of ticks
C32_AtMostOnce ==
  NewestNeverReverts =>
    \A i, j \in 1..Len(sent) :
      (i < j /\ sent[i].emailId # Null /\ sent[i].emailId = sent[j].emailId) =>
        /\ ~(IsItem(sent[i]) /\ IsItem(sent[j]))
        /\ ~(IsOutcome(sent[i]) /\ IsOutcome(sent[j]))
\* the position in ops of the attach that wrote the status_update sent[j]
\* (each attach appends one entry to each log)
AttachOf(j) ==
  LET n == Cardinality({l \in 1..j : IsStatus(sent[l])})
  IN  CHOOSE p \in 1..Len(ops) :
        /\ ops[p][1] = "attach"
        /\ Cardinality({q \in 1..p : ops[q][1] = "attach"}) = n

\* sent[j] is the status_update of an attach that started the poller again:
\* every observer attached before it had closed, which stopped the poller
RestartAt(j) ==
  /\ IsStatus(sent[j])
  /\ LET p == AttachOf(j)
     IN  /\ p > 1
         /\ \A q \in 1..(p - 1) : ops[q][1] = "attach" =>
              \E c \in (q + 1)..(p - 1) : ops[c] = <<"close", ops[q][2]>>

\* C33: no frame of a tick is written to an observer while the poller is
\* Idle, and a tick that was awaiting its scan when the poller stopped writes
\* the outcome to no observer afterwards, not even to one that attached later
C33_NoFrameAfterStop ==
  /\ [][(BroadcastStep /\ ~isPolling) => sent'[Len(sent')].to = <<>>]_vars
  /\ [](\A i, j, m \in 1..Len(sent) :
          (i < j /\ j < m /\ ItemOf(i, m) /\ IsOutcome(sent[m]) /\ RestartAt(j))
          => sent[m].to = <<>>)

\* the cursor when sent[j] was written: the identifier of the latest
\* email_received before it
CursorAt(j) ==
  LET items == {i \in 1..(j - 1) : IsItem(sent[i])}
  IN  IF items = {} THEN Null
      ELSE sent[CHOOSE i \in items : \A l \in items : l <= i].emailId

\* C34: a step that stops the poller leaves the cursor as it is, and an
\* observer that attaches to the stopped poller is written neither the
\* email_received nor a scan outcome of the identifier the cursor holds
C34_CursorKept ==
  /\ [][(isPolling /\ ~isPolling') => lastEmailId' = lastEmailId]_vars
  /\ [](\A j, m \in 1..Len(sent) :
          (/\ j < m /\ RestartAt(j) /\ Len(sent[j].to) = 1
           /\ CursorAt(j) # Null /\ sent[m].emailId = CursorAt(j)
           /\ sent[j].to[1] \in Recipients(sent[m]))
          => ~IsItem(sent[m]) /\ ~IsOutcome(sent[m]))

\* C35: after the scan of an identifier has failed, and for as long as that
\* identifier is the newest of the store, no tick announces it or reports a
\* scan of it again
C35_NoRetry ==
  \A i, j \in 1..Len(sent) :
    (/\ i < j
     /\ IsScanFailed(sent[i])
     /\ inbox # <<>> /\ inbox[1].ID = sent[i].emailId
     /\ sent[j].emailId = sent[i].emailId)
    => ~IsItem(sent[j]) /\ ~IsOutcome(sent[j])
\* no item has been announced yet
NothingAnnounced == \A i \in 1..Len(sent) : ~IsItem(sent[i])

\* C36: the cursor is absent until an item is announced, and the first
\* successful fetch that returns an item announces it whenever the message
\* reached the store: the tick broadcasts its email_received, sets the cursor
\* and goes on to scan it when it has a body
C36_FirstItemAnnounced ==
  /\ [](NothingAnnounced => lastEmailId = Null)
  /\ [][(FetchCompleted /\ NothingAnnounced /\ lastFetch'.hasNewEmail) =>
         LET e == sent'[Len(sent')]
         IN  /\ sent' = Append(sent, e)
             /\ IsItem(e) /\ e.emailId = lastFetch'.emailId /\ e.tick = lastFetch'.tick
             /\ lastEmailId' = lastFetch'.emailId
             /\ e.hasContent <=> lastFetch'.htmlContent = "text"
             /\ e.hasContent <=> \E t \in ticks' : t.id = e.tick /\ t.pc = "scanning"]_vars

\* the first tick of the first polling session fetched message 1, announced
\* it to the observer and its scan has returned
C36_Witness ==
  /\ timerSeq = 1 /\ fires = 1 /\ lastFetch.tick = 1 /\ lastFetch.emailId = 1
  /\ ops = << <<"attach", 1>> >>
  /\ Len(sent) = 3
  /\ IsStatus(sent[1])
  /\ IsItem(sent[2]) /\ sent[2].emailId = 1 /\ sent[2].to = <<1>>
  /\ sent[3].type = "scan_complete" /\ sent[3].to = <<1>>
\* o was attached and has been removed: it closed, or a write to it threw
Gone(o) == conn[o] = "closed" \/ (conn[o] = "open" /\ o \notin Members(clients))

\* C37: an observer that has been removed from the set, by its close or by a
\* write that threw, never enters the set again and is written no frame by
\* any later broadcast, of a new tick or of a tick that was in flight
C37_NoFrameAfterRemoval ==
  [][\A o \in Observers : Gone(o) =>
       /\ o \notin Members(clients')
       /\ Emitted => o \notin Recipients(sent'[Len(sent')])]_vars

\* a tick announced an item to observers 1 and 2, observer 1 closed while the
\* scan ran, and the outcome was written to observer 2 only
C37_Witness ==
  /\ conn[1] = "closed" /\ nFail = 0
  /\ \E i, j \in 1..Len(sent) :
       /\ ItemOf(i, j) /\ IsOutcome(sent[j])
       /\ sent[i].to = <<1, 2>> /\ sent[j].to = <<2>>
\* the entries of the log that were written to o
FramesTo(o) == {i \in 1..Len(sent) : o \in Recipients(sent[i])}

\* C38: an event is written once, to the members of the set at that moment
\* and to nobody else: every member that stays has received it; the first
\* frame an observer receives is its own status_update, so nothing that was
\* broadcast before its attach reaches it
C38_NoReplay ==
  /\ [][BroadcastStep =>
         LET e == sent'[Len(sent')]
         IN  /\ sent' = Append(sent, e)
             /\ Recipients(e) \subseteq Members(clients)
             /\ Recipients(e) = Members(clients')
             /\ \A o \in Recipients(e) : Occurrences(e.to, o) = 1]_vars
  /\ [](\A o \in Observers : \A i \in FramesTo(o) :
          \E j \in 1..i :
            /\ IsStatus(sent[j]) /\ sent[j].to = <<o>>
            /\ \A k \in FramesTo(o) : j <= k)
  /\ [](\A i \in 1..Len(sent) : IsStatus(sent[i]) => Len(sent[i].to) <= 1)

\* an item was announced to observer 1 alone; observer 2 attached after it
\* and received its status_update first and then the event both were sent
C38_Witness ==
  \E i, j, k \in 1..Len(sent) :
    /\ i < j /\ j < k
    /\ IsItem(sent[i]) /\ sent[i].to = <<1>>
    /\ IsStatus(sent[j]) /\ sent[j].to = <<2>>
    /\ sent[k].tick # 0 /\ sent[k].to = <<1, 2>>
    /\ \A l \in FramesTo(2) : j <= l
\* the words of the message of the Error a scan threw
Words(r) == {r.thrown[i] : i \in 1..Len(r.thrown)}

\* html is missing, not a string, or blank once trimmed
Unusable(html) == html.type # "string" \/ html.blank

\* every request that was received has one response, a request in hand has none
OneResponseEach ==
  /\ \A k \in 1..Len(responses) : responses[k].id = k
  /\ request # NoRequest => request.id = Len(responses) + 1

\* C39 as stated: one response per request; html missing, not a string or
\* blank gives 400; html longer than 1048576 characters gives 413; the scanner
\* is called only after the validation passed; a scanner error gives 408 when
\* its message contains timeout and 500 otherwise; a failed report mail
\* leaves the response a success
C39_StatusCodesAnyBlank ==
  /\ OneResponseEach
  /\ \A k \in 1..Len(responses) :
       LET r == responses[k]
           html == r.body.html
       IN  /\ Unusable(html) => r.status = 400
           /\ (html.type = "string" /\ html.length > SizeLimit) => r.status = 413
           /\ r.status \in {400, 413} <=> r.scans = 0
           /\ r.outcome = "threw" =>
                /\ r.status = (IF "timeout" \in Words(r) THEN 408 ELSE 500)
                /\ r.scans = 1
           /\ r.outcome = "report" => r.status = 200 /\ r.scans = 1

\* C39 (amended): as above, with 413 for html that is longer than 1048576
\* characters and not blank: a blank html gives 400 whatever its length
C39_StatusCodes ==
  /\ OneResponseEach
  /\ \A k \in 1..Len(responses) :
       LET r == responses[k]
           html == r.body.html
       IN  /\ r.status = 400 <=> Unusable(html)
           /\ r.status = 413 <=> (~Unusable(html) /\ html.length > SizeLimit)
           /\ r.scans = (IF r.status \in {400, 413} THEN 0 ELSE 1)
           /\ r.scans = 1 => html.length <= SizeLimit
           /\ r.outcome = "none" <=> r.scans = 0
           /\ r.outcome = "threw" =>
                /\ r.status = (IF "timeout" \in Words(r) THEN 408 ELSE 500)
                /\ r.mailed = "none"
           /\ r.outcome = "report" =>
                /\ r.status = 200
                /\ r.mailed # "none" <=> r.body.sendEmail
  /\ \A k \in 1..Len(responses) :
       responses[k].status \in {200, 400, 408, 413, 500}

\* a request of exactly 1048576 characters was scanned and answered 200
\* although its report mail failed, and a request whose scan timed out was
\* answered 408
C39_Witness ==
  /\ Len(responses) = 2
  /\ responses[1].body.html.length = SizeLimit /\ responses[1].mailed = "failed"
  /\ responses[1].status = 200
  /\ responses[2].outcome = "threw" /\ responses[2].status = 408
====
